---------------------------- MODULE Spec2Model ----------------------------
(***************************************************************************)
(* Model of code/python/assign_nearest_station_dynamic_200706_201108.py:   *)
(* the daily assignment of every region (si/gun/gu) to its nearest weather *)
(* station, the attachment of station segments, the compression of the     *)
(* assignments into intervals and the monthly sums.                        *)
(*                                                                         *)
(* Conventions:                                                            *)
(*   - a table (DataFrame) is a sequence of records, one per row;          *)
(*   - a date is an integer day number, NaT is the missing date;           *)
(*   - a sunshine value is an integer, NaN is the missing value;           *)
(*   - Korean column names are romanised: jijeom (station id), ilsi        *)
(*     (date), sijak_il / jongryo_il (start / end date), wido / gyeongdo   *)
(*     (latitude / longitude), sun_hr (the sunshine column);               *)
(*   - a distance is kept as its square (np.hypot is monotone in it), so   *)
(*     comparisons are exact.                                              *)
(***************************************************************************)
EXTENDS Integers, Sequences, FiniteSets, TLC

(***************************************************************************)
(* Bounds of the model.                                                    *)
(***************************************************************************)
MaxCoord == 2
MaxCand == 3
MaxDate == 3
MaxSegs == 2
MaxObs == 2
MaxStation == 2
MaxRunDays == 4

(***************************************************************************)
(* Missing values produced by errors="coerce".                             *)
(***************************************************************************)
NaT == -1
NaN == -1

VARIABLES pc, missing, sun, meta_raw, window_start, window_end, meta,
          sun_seg, days, g, idx_c, dist_c, idx_r, dist_r, out_rows,
          region_day, intervals, monthly, written

vars == <<pc, missing, sun, meta_raw, window_start, window_end, meta,
          sun_seg, days, g, idx_c, dist_c, idx_r, dist_r, out_rows,
          region_day, intervals, monthly, written>>

(***************************************************************************)
(* Generic helpers.                                                        *)
(***************************************************************************)
SeqsUpTo(S, n) == UNION {[1..k -> S] : k \in 0..n}

(* Lexicographic strict order on tuples of integers of the same length. *)
RECURSIVE LexLess(_, _)
LexLess(a, b) ==
    IF a = <<>> THEN FALSE
    ELSE IF Head(a) # Head(b) THEN Head(a) < Head(b)
         ELSE LexLess(Tail(a), Tail(b))

(* Insert index i into the sorted index list p, after every index whose key
   is not greater (so equal keys keep their order: a stable sort). *)
RECURSIVE InsertIdx(_, _, _)
InsertIdx(i, p, keys) ==
    IF p = <<>> THEN <<i>>
    ELSE IF LexLess(keys[i], keys[Head(p)]) THEN <<i>> \o p
         ELSE <<Head(p)>> \o InsertIdx(i, Tail(p), keys)

RECURSIVE SortPerm(_, _)
SortPerm(keys, n) ==
    IF n = 0 THEN <<>> ELSE InsertIdx(n, SortPerm(keys, n - 1), keys)

(* DataFrame.sort_values: the rows of t in the stable order of their keys. *)
sort_values(t, keys) ==
    LET p == SortPerm(keys, Len(t)) IN [i \in 1..Len(t) |-> t[p[i]]]

(***************************************************************************)
(* The region table (centers).  The set of regions is fixed for a run;     *)
(* resid_area is unique (sigungu_center.py refuses duplicates) and is not  *)
(* in the order of the rows.                                               *)
(***************************************************************************)
Centers ==
    << [SIGUNGU_CD |-> 1, resid_area |-> 2,
        centroid_x |-> 1, centroid_y |-> 2, rep_x |-> 2, rep_y |-> 3],
       [SIGUNGU_CD |-> 2, resid_area |-> 1,
        centroid_x |-> 3, centroid_y |-> 4, rep_x |-> 1, rep_y |-> 4] >>

rx_c == [r \in 1..Len(Centers) |-> Centers[r].centroid_x]
ry_c == [r \in 1..Len(Centers) |-> Centers[r].centroid_y]
rx_r == [r \in 1..Len(Centers) |-> Centers[r].rep_x]
ry_r == [r \in 1..Len(Centers) |-> Centers[r].rep_y]

(***************************************************************************)
(* nearest_station_for_day                                                 *)
(***************************************************************************)
Hypot2(dx, dy) == dx * dx + dy * dy

(* numpy argmin with <= instead of <: keeps the last minimum. *)
RECURSIVE ArgMinLastFrom(_, _, _)
ArgMinLastFrom(row, i, best) ==
    IF i > Len(row) THEN best
    ELSE ArgMinLastFrom(row, i + 1, IF row[i] <= row[best] THEN i ELSE best)

(* numpy argmin: a scan that keeps the first minimum. *)
RECURSIVE ArgMinFrom(_, _, _)
ArgMinFrom(row, i, best) ==
    IF i > Len(row) THEN best
    ELSE ArgMinFrom(row, i + 1, IF row[i] < row[best] THEN i ELSE best)

ArgMinLast(row) == ArgMinLastFrom(row, 2, 1)

ArgMin(row) == ArgMinFrom(row, 2, 1)

nearest_station_for_day(rx, ry, stx, sty) ==
    LET dist == [r \in 1..Len(rx) |->
                    [s \in 1..Len(stx) |-> Hypot2(rx[r] - stx[s], ry[r] - sty[s])]]
        idx == [r \in 1..Len(rx) |-> ArgMin(dist[r])]
        dist_m == [r \in 1..Len(rx) |-> dist[r][idx[r]]]
    IN  <<idx, dist_m>>

(***************************************************************************)
(* More table helpers.                                                     *)
(***************************************************************************)
Max2(a, b) == IF a >= b THEN a ELSE b
Min2(a, b) == IF a <= b THEN a ELSE b

RECURSIVE Flatten(_)
Flatten(tt) == IF tt = <<>> THEN <<>> ELSE Head(tt) \o Flatten(Tail(tt))

(* The elements of a finite set of integers in ascending order. *)
RECURSIVE SortedSeq(_)
SortedSeq(S) ==
    IF S = {} THEN <<>>
    ELSE LET lo == CHOOSE x \in S : \A y \in S : x <= y
         IN  <<lo>> \o SortedSeq(S \ {lo})

(* The rows of t at the positions I, in the order of t. *)
RowsAt(t, I) == LET p == SortedSeq(I) IN [i \in 1..Len(p) |-> t[p[i]]]

(***************************************************************************)
(* prepare_meta: parse the segments, clip them to the window and resolve   *)
(* the overlaps within a station.                                          *)
(***************************************************************************)
WithSeg(r, window_start_, window_end_) ==
    [jijeom |-> r.jijeom, sijak_il |-> r.sijak_il, jongryo_il |-> r.jongryo_il,
     wido |-> r.wido, gyeongdo |-> r.gyeongdo,
     seg_start |-> IF r.sijak_il = NaT THEN window_start_ ELSE r.sijak_il,
     seg_end |-> IF r.jongryo_il = NaT THEN window_end_ ELSE r.jongryo_il]

(* groupby("jijeom")["seg_start"].shift(-1) on the sorted table *)
next_start(m, i) ==
    IF i < Len(m) /\ m[i + 1].jijeom = m[i].jijeom THEN m[i + 1].seg_start
    ELSE NaT

prepare_meta(meta_, window_start_, window_end_) ==
    LET HasId(r) == r.jijeom # NaN
        m1 == SelectSeq(meta_, HasId)
        m2 == [i \in 1..Len(m1) |-> WithSeg(m1[i], window_start_, window_end_)]
        InWindow(r) == r.seg_end >= window_start_ /\ r.seg_start <= window_end_
        m3 == SelectSeq(m2, InWindow)
        m4 == [i \in 1..Len(m3) |->
                 [m3[i] EXCEPT !.seg_start = Max2(@, window_start_),
                               !.seg_end = Min2(@, window_end_)]]
        HasLoc(r) == r.wido # NaN /\ r.gyeongdo # NaN
        m5 == SelectSeq(m4, HasLoc)
        m6 == sort_values(m5, [i \in 1..Len(m5) |->
                 <<m5[i].jijeom, m5[i].seg_start, m5[i].seg_end>>])
        overlap(i) == next_start(m6, i) # NaT /\ m6[i].seg_end >= next_start(m6, i)
    IN  [i \in 1..Len(m6) |->
           IF overlap(i) THEN [m6[i] EXCEPT !.seg_end = next_start(m6, i) - 1]
           ELSE m6[i]]

(***************************************************************************)
(* attach_segment_to_sun: the left merge on the station id, the in-segment *)
(* filter, and the choice of the latest seg_start among several matches.   *)
(***************************************************************************)
Merged(o, s) ==
    [jijeom |-> o.jijeom, ilsi |-> o.ilsi, sun_hr |-> o.sun_hr,
     seg_start |-> s.seg_start, seg_end |-> s.seg_end,
     wido |-> s.wido, gyeongdo |-> s.gyeongdo]

Unmatched(o) ==
    [jijeom |-> o.jijeom, ilsi |-> o.ilsi, sun_hr |-> o.sun_hr,
     seg_start |-> NaT, seg_end |-> NaT, wido |-> NaN, gyeongdo |-> NaN]

merge_left(sun_, meta_) ==
    Flatten([k \in 1..Len(sun_) |->
        LET SameId(s) == s.jijeom = sun_[k].jijeom
            hit == SelectSeq(meta_, SameId)
        IN  IF hit = <<>> THEN <<Unmatched(sun_[k])>>
            ELSE [j \in 1..Len(hit) |-> Merged(sun_[k], hit[j])]])

(* drop_duplicates(subset=[jijeom, ilsi], keep="last") *)
drop_duplicates_last(m) ==
    RowsAt(m, {i \in 1..Len(m) : \A j \in (i + 1)..Len(m) :
                  <<m[j].jijeom, m[j].ilsi>> # <<m[i].jijeom, m[i].ilsi>>})

(* drop_duplicates(subset=[jijeom, ilsi], keep="first") *)
drop_duplicates(m) ==
    RowsAt(m, {i \in 1..Len(m) : \A j \in 1..(i - 1) :
                  <<m[j].jijeom, m[j].ilsi>> # <<m[i].jijeom, m[i].ilsi>>})

attach_segment_to_sun(sun_, meta_) ==
    LET m == merge_left(sun_, meta_)
        in_seg(r) == /\ r.seg_start # NaT /\ r.seg_end # NaT
                     /\ r.ilsi >= r.seg_start /\ r.ilsi <= r.seg_end
        m1 == SelectSeq(m, in_seg)
        m2 == sort_values(m1, [i \in 1..Len(m1) |->
                 <<m1[i].jijeom, m1[i].ilsi, 0 - m1[i].seg_start>>])
    IN  drop_duplicates(m2)

(***************************************************************************)
(* make_intervals: compress the region-day assignments of one station      *)
(* column into intervals.  mean_distance_m is kept as <<sum, count>> of    *)
(* the non-missing distances of the run (np.nanmean is their quotient).    *)
(***************************************************************************)
RECURSIVE NanSum(_)
NanSum(col) ==
    IF col = <<>> THEN 0
    ELSE (IF Head(col) = NaN THEN 0 ELSE Head(col)) + NanSum(Tail(col))

NanCount(col) == Cardinality({i \in 1..Len(col) : col[i] # NaN})

(* n_days taken as the calendar span of the run *)
run_n_days_calendar(grp, s, e) == grp[e].date - grp[s].date + 1

(* n_days = e - s + 1: the number of records of the run *)
run_n_days(grp, s, e) == e - s + 1

(* change[1:] = (st[1:] == st[:-1]): the comparison inverted *)
change_inverted(st, i) == i = 1 \/ st[i] = st[i - 1]

(* change = ones; change[1:] = (st[1:] != st[:-1]) *)
change(st, i) == i = 1 \/ st[i] # st[i - 1]

group_intervals(grp, area, station_col, dist_col) ==
    LET st == [i \in 1..Len(grp) |-> grp[i][station_col]]
        d == [i \in 1..Len(grp) |-> grp[i][dist_col]]
        code == grp[1].SIGUNGU_CD
        starts == SortedSeq({i \in 1..Len(grp) : change(st, i)})
        ends == [k \in 1..Len(starts) |->
                   IF k < Len(starts) THEN starts[k + 1] - 1 ELSE Len(grp)]
        runs == [k \in 1..Len(starts) |->
                   [SIGUNGU_CD |-> code, resid_area |-> area,
                    station_id |-> st[starts[k]],
                    start_date |-> grp[starts[k]].date,
                    end_date |-> grp[ends[k]].date,
                    mean_distance_m |->
                        <<NanSum(SubSeq(d, starts[k], ends[k])),
                          NanCount(SubSeq(d, starts[k], ends[k]))>>,
                    n_days |-> run_n_days(grp, starts[k], ends[k])]]
        NotNa(r) == r.station_id # NaN
    IN  SelectSeq(runs, NotNa)

make_intervals(region_day_, station_col, dist_col) ==
    LET sorted == sort_values(region_day_, [i \in 1..Len(region_day_) |->
                     <<region_day_[i].resid_area, region_day_[i].date>>])
        areas == SortedSeq({sorted[i].resid_area : i \in 1..Len(sorted)})
    IN  Flatten([a \in 1..Len(areas) |->
            LET InArea(r) == r.resid_area = areas[a]
            IN  group_intervals(SelectSeq(sorted, InArea), areas[a],
                                station_col, dist_col)])

WithMethod(t, method) ==
    [i \in 1..Len(t) |->
        [SIGUNGU_CD |-> t[i].SIGUNGU_CD, resid_area |-> t[i].resid_area,
         station_id |-> t[i].station_id, start_date |-> t[i].start_date,
         end_date |-> t[i].end_date, mean_distance_m |-> t[i].mean_distance_m,
         n_days |-> t[i].n_days, method |-> method]]

all_intervals(region_day_) ==
    WithMethod(make_intervals(region_day_, "station_id_centroid", "dist_m_centroid"),
               "centroid")
    \o WithMethod(make_intervals(region_day_, "station_id_rep", "dist_m_rep"), "rep")

(***************************************************************************)
(* Monthly sums: groupby([SIGUNGU_CD, resid_area, ym]).agg(sum, sum,       *)
(* count).  The sum of a group skips NaN and is 0 when nothing is left.    *)
(***************************************************************************)
DaysPerMonth == 2

ym(date) == date \div DaysPerMonth

monthly_sums(region_day_) ==
    LET keys == {<<region_day_[i].SIGUNGU_CD, region_day_[i].resid_area,
                   ym(region_day_[i].date)>> : i \in 1..Len(region_day_)}
        enc(k) == (k[1] * (Len(Centers) + 1) + k[2]) * (MaxDate + 1) + k[3]
        order == SortedSeq({enc(k) : k \in keys})
        keyAt(n) == CHOOSE k \in keys : enc(k) = order[n]
    IN  [n \in 1..Len(order) |->
            LET InGroup(r) == <<r.SIGUNGU_CD, r.resid_area, ym(r.date)>> = keyAt(n)
                grp == SelectSeq(region_day_, InGroup)
            IN  [SIGUNGU_CD |-> keyAt(n)[1], resid_area |-> keyAt(n)[2],
                 ym |-> keyAt(n)[3],
                 sun_hr_centroid_sum |->
                     NanSum([i \in 1..Len(grp) |-> grp[i].sun_hr_centroid]),
                 sun_hr_rep_sum |->
                     NanSum([i \in 1..Len(grp) |-> grp[i].sun_hr_rep]),
                 n_days |-> Len(grp)]]

(***************************************************************************)
(* main(): the steps of the run.  `missing` names the one required column  *)
(* that an input file lacks ("none": every column is there); reading a     *)
(* column that is not there raises and ends the run (pc = "aborted").      *)
(***************************************************************************)
WINDOW_START == 1
WINDOW_END == MaxDate

CentersCols == {"centers.SIGUNGU_CD", "centers.resid_area",
                "centers.centroid_x_utmK", "centers.centroid_y_utmK",
                "centers.rep_x_utmK", "centers.rep_y_utmK"}
SunKeyCols == {"sun.jijeom", "sun.ilsi"}
SunValueCol == "sun.sun_hr"
MetaCols == {"meta.jijeom", "meta.sijak_il", "meta.jongryo_il",
             "meta.wido", "meta.gyeongdo"}
LabelCols == {"sun.jijeommyeong", "meta.jijeommyeong"}
AllCols == CentersCols \cup SunKeyCols \cup {SunValueCol} \cup MetaCols
           \cup LabelCols

(* The check of the centers columns left out. *)
centers_unchecked == FALSE

(* need - set(centers.columns) is not empty *)
centers_missing == missing \in CentersCols

(* Transformer 4326 -> 5179: an injective map of (lon, lat) to planar metres,
   modelled by the shift of the projection's false origin. *)
FalseEasting == 1
FalseNorthing == 2
to_utmK(lon, lat) == <<lon + FalseEasting, lat + FalseNorthing>>

WithUtmK(r) ==
    [jijeom |-> r.jijeom, ilsi |-> r.ilsi, sun_hr |-> r.sun_hr,
     seg_start |-> r.seg_start, seg_end |-> r.seg_end,
     wido |-> r.wido, gyeongdo |-> r.gyeongdo,
     st_x_utmK |-> to_utmK(r.gyeongdo, r.wido)[1],
     st_y_utmK |-> to_utmK(r.gyeongdo, r.wido)[2]]

Abort ==
    /\ pc' = "aborted"
    /\ UNCHANGED <<missing, sun, meta_raw, window_start, window_end, meta,
                   sun_seg, days, g, idx_c, dist_c, idx_r, dist_r, out_rows,
                   region_day, intervals, monthly, written>>

LoadCenters ==
    /\ pc = "start"
    /\ IF centers_missing THEN Abort
       ELSE /\ pc' = "load_sun"
            /\ UNCHANGED <<missing, sun, meta_raw, window_start, window_end,
                           meta, sun_seg, days, g, idx_c, dist_c, idx_r,
                           dist_r, out_rows, region_day, intervals, monthly,
                           written>>

sun_in_window(sun_) ==
    LET Valid(r) == /\ r.jijeom # NaN /\ r.ilsi # NaT
                    /\ r.ilsi >= WINDOW_START /\ r.ilsi <= WINDOW_END
    IN  SelectSeq(sun_, Valid)

LoadSun ==
    /\ pc = "load_sun"
    /\ IF missing \in SunKeyCols THEN Abort
       ELSE IF sun_in_window(sun) = <<>> THEN Abort
       ELSE IF missing = SunValueCol THEN Abort
       ELSE /\ sun' = sun_in_window(sun)
            /\ pc' = "load_meta"
            /\ UNCHANGED <<missing, meta_raw, window_start, window_end, meta,
                           sun_seg, days, g, idx_c, dist_c, idx_r, dist_r,
                           out_rows, region_day, intervals, monthly, written>>

min_ilsi(sun_) ==
    CHOOSE d \in {sun_[i].ilsi : i \in 1..Len(sun_)} :
        \A i \in 1..Len(sun_) : d <= sun_[i].ilsi
max_ilsi(sun_) ==
    CHOOSE d \in {sun_[i].ilsi : i \in 1..Len(sun_)} :
        \A i \in 1..Len(sun_) : d >= sun_[i].ilsi

LoadMeta ==
    /\ pc = "load_meta"
    /\ IF missing \in MetaCols THEN Abort
       ELSE /\ window_start' = min_ilsi(sun)
            /\ window_end' = max_ilsi(sun)
            /\ meta' = prepare_meta(meta_raw, min_ilsi(sun), max_ilsi(sun))
            /\ pc' = "attach"
            /\ UNCHANGED <<missing, sun, meta_raw, sun_seg, days, g, idx_c,
                           dist_c, idx_r, dist_r, out_rows, region_day,
                           intervals, monthly, written>>

Attach ==
    /\ pc = "attach"
    /\ IF missing \in LabelCols THEN Abort
       ELSE LET att == attach_segment_to_sun(sun, meta)
            IN  /\ sun_seg' = [i \in 1..Len(att) |-> WithUtmK(att[i])]
                /\ days' = SortedSeq({att[i].ilsi : i \in 1..Len(att)})
                /\ pc' = "loop"
                /\ UNCHANGED <<missing, sun, meta_raw, window_start,
                               window_end, meta, g, idx_c, dist_c, idx_r,
                               dist_r, out_rows, region_day, intervals,
                               monthly, written>>

(* One iteration of the loop over sun_seg.groupby(date). *)
DayLoop ==
    /\ pc = "loop"
    /\ days # <<>>
    /\ LET day == Head(days)
           OnDay(r) == r.ilsi = day
           grp == SelectSeq(sun_seg, OnDay)
           stx == [i \in 1..Len(grp) |-> grp[i].st_x_utmK]
           sty == [i \in 1..Len(grp) |-> grp[i].st_y_utmK]
           nc == nearest_station_for_day(rx_c, ry_c, stx, sty)
           nr == nearest_station_for_day(rx_r, ry_r, stx, sty)
       IN  /\ g' = grp
           /\ idx_c' = nc[1]
           /\ dist_c' = nc[2]
           /\ idx_r' = nr[1]
           /\ dist_r' = nr[2]
           /\ out_rows' = out_rows \o
                 [r \in 1..Len(Centers) |->
                    [SIGUNGU_CD |-> Centers[r].SIGUNGU_CD,
                     resid_area |-> Centers[r].resid_area,
                     date |-> day,
                     station_id_centroid |-> grp[nc[1][r]].jijeom,
                     dist_m_centroid |-> nc[2][r],
                     sun_hr_centroid |-> grp[nc[1][r]].sun_hr,
                     station_id_rep |-> grp[nr[1][r]].jijeom,
                     dist_m_rep |-> nr[2][r],
                     sun_hr_rep |-> grp[nr[1][r]].sun_hr]]
           /\ days' = Tail(days)
    /\ UNCHANGED <<pc, missing, sun, meta_raw, window_start, window_end, meta,
                   sun_seg, region_day, intervals, monthly, written>>

(* pd.concat(out_rows) raises when there is nothing to concatenate. *)
Concat ==
    /\ pc = "loop"
    /\ days = <<>>
    /\ IF out_rows = <<>> THEN Abort
       ELSE /\ region_day' = out_rows
            /\ pc' = "save_daily"
            /\ UNCHANGED <<missing, sun, meta_raw, window_start, window_end,
                           meta, sun_seg, days, g, idx_c, dist_c, idx_r,
                           dist_r, out_rows, intervals, monthly, written>>

(* The daily CSV is written; the DTA export may fail and is only warned. *)
SaveDaily ==
    /\ pc = "save_daily"
    /\ \E dta_ok \in BOOLEAN :
          written' = written \cup {"daily_csv"}
                     \cup (IF dta_ok THEN {"daily_dta"} ELSE {})
    /\ pc' = "intervals"
    /\ UNCHANGED <<missing, sun, meta_raw, window_start, window_end, meta,
                   sun_seg, days, g, idx_c, dist_c, idx_r, dist_r, out_rows,
                   region_day, intervals, monthly>>

SaveIntervals ==
    /\ pc = "intervals"
    /\ intervals' = all_intervals(region_day)
    /\ written' = written \cup {"intervals_csv"}
    /\ pc' = "monthly"
    /\ UNCHANGED <<missing, sun, meta_raw, window_start, window_end, meta,
                   sun_seg, days, g, idx_c, dist_c, idx_r, dist_r, out_rows,
                   region_day, monthly>>

SaveMonthly ==
    /\ pc = "monthly"
    /\ monthly' = monthly_sums(region_day)
    /\ written' = written \cup {"monthly_csv"}
    /\ pc' = "done"
    /\ UNCHANGED <<missing, sun, meta_raw, window_start, window_end, meta,
                   sun_seg, days, g, idx_c, dist_c, idx_r, dist_r, out_rows,
                   region_day, intervals>>

Next ==
    \/ LoadCenters
    \/ LoadSun
    \/ LoadMeta
    \/ Attach
    \/ DayLoop
    \/ Concat
    \/ SaveDaily
    \/ SaveIntervals
    \/ SaveMonthly

(***************************************************************************)
(* Inputs.                                                                 *)
(***************************************************************************)
Obs(id, date, value) == [jijeom |-> id, ilsi |-> date, sun_hr |-> value]

RawSeg(id, start, end_, lat, lon) ==
    [jijeom |-> id, sijak_il |-> start, jongryo_il |-> end_,
     wido |-> lat, gyeongdo |-> lon]

(* The sunshine file: per station and day (day 0 lies before the window)
   no row, a row without a value, or a row with a value. *)
SunCells == [(1..MaxStation) \X (0..MaxDate) -> {"none", "nan", "value"}]

SunFileOf(cells) ==
    LET n == MaxStation * (MaxDate + 1)
        st(k) == ((k - 1) \div (MaxDate + 1)) + 1
        dt(k) == (k - 1) % (MaxDate + 1)
        all == [k \in 1..n |->
                  Obs(st(k), dt(k),
                      IF cells[<<st(k), dt(k)>>] = "value" THEN st(k) ELSE NaN)]
    IN  RowsAt(all, {k \in 1..n : cells[<<st(k), dt(k)>>] # "none"})

(* A file whose rows before the window all have a value. *)
SunFile(cells) == \A s \in 1..MaxStation : cells[<<s, 0>>] # "nan"

(* The files that have rows on the first day of the window only. *)
SmallSunCells ==
    {[p \in (1..MaxStation) \X (0..MaxDate) |->
         IF p[2] = WINDOW_START THEN f[p[1]] ELSE "none"] :
     f \in [1..MaxStation -> {"none", "nan", "value"}]}

(* The station metadata file: station 1 stays or moves after day 1,
   station 2 exists from the start or is built on day 2. *)
MetaFiles ==
    {a \o b :
       a \in {<<RawSeg(1, NaT, NaT, 0, 0)>>,
              <<RawSeg(1, 0, 1, 0, 0), RawSeg(1, 2, NaT, MaxCoord, MaxCoord)>>},
       b \in {<<RawSeg(2, NaT, NaT, 1, 1)>>, <<RawSeg(2, 2, NaT, 1, 1)>>}}

Blank ==
    /\ window_start = NaT /\ window_end = NaT
    /\ meta = <<>> /\ sun_seg = <<>> /\ days = <<>> /\ g = <<>>
    /\ idx_c = <<>> /\ dist_c = <<>> /\ idx_r = <<>> /\ dist_r = <<>>
    /\ out_rows = <<>> /\ region_day = <<>> /\ intervals = <<>>
    /\ monthly = <<>> /\ written = {}

(* A whole run on well-formed files. *)
Init ==
    /\ pc = "start"
    /\ missing = "none"
    /\ \E cells \in SunCells : SunFile(cells) /\ sun = SunFileOf(cells)
    /\ meta_raw \in MetaFiles
    /\ Blank

Spec == Init /\ [][Next]_vars

(* A whole run on files of which one may lack a required column. *)
InitSchema ==
    /\ pc = "start"
    /\ missing \in AllCols \cup {"none"}
    /\ \E cells \in SmallSunCells : sun = SunFileOf(cells)
    /\ meta_raw \in MetaFiles
    /\ Blank

SpecSchema == InitSchema /\ [][Next]_vars

(* prepare_meta on any window and any raw metadata whose rows have their
   own dates in order (start <= end when both are given): whatever is wrong
   with an output segment then comes from the resolution, not from the row. *)
RawSegs ==
    {r \in {RawSeg(id, a, b, lat, 0) :
              id \in {NaN} \cup (1..MaxStation), a \in {NaT} \cup (0..MaxDate),
              b \in {NaT} \cup (0..MaxDate), lat \in {NaN, 0}} :
        r.sijak_il = NaT \/ r.jongryo_il = NaT \/ r.sijak_il <= r.jongryo_il}

InitMeta ==
    /\ pc = "load_meta"
    /\ missing = "none"
    /\ \E ws \in WINDOW_START..WINDOW_END : \E we \in ws..WINDOW_END :
          sun = <<Obs(1, ws, 1), Obs(1, we, 1)>>
    /\ meta_raw \in SeqsUpTo(RawSegs, MaxSegs)
    /\ Blank

SpecMeta == InitMeta /\ [][LoadMeta]_vars

(* attach_segment_to_sun on any observations and any segments. *)
AttachObs ==
    {Obs(id, d, 1) : id \in 1..MaxStation, d \in WINDOW_START..WINDOW_END}

(* Segments of any station and any dates, overlapping or not; the k-th
   segment of the table lies at location k, so that the location on an
   output row tells which segment was chosen. *)
AttachSegs ==
    {[jijeom |-> id, seg_start |-> a, seg_end |-> b] :
        id \in 1..MaxStation, a \in WINDOW_START..WINDOW_END,
        b \in WINDOW_START..WINDOW_END}

AttachMeta ==
    {[k \in 1..Len(t) |->
        [jijeom |-> t[k].jijeom, seg_start |-> t[k].seg_start,
         seg_end |-> t[k].seg_end, wido |-> k, gyeongdo |-> k]] :
     t \in SeqsUpTo(AttachSegs, MaxSegs)}

InitAttach ==
    /\ pc = "attach"
    /\ missing = "none"
    /\ sun \in SeqsUpTo(AttachObs, MaxObs)
    /\ meta_raw = <<>>
    /\ window_start = NaT /\ window_end = NaT
    /\ meta \in AttachMeta
    /\ sun_seg = <<>> /\ days = <<>> /\ g = <<>>
    /\ idx_c = <<>> /\ dist_c = <<>> /\ idx_r = <<>> /\ dist_r = <<>>
    /\ out_rows = <<>> /\ region_day = <<>> /\ intervals = <<>>
    /\ monthly = <<>> /\ written = {}

SpecAttach == InitAttach /\ [][Attach]_vars

(* nearest_station_for_day on any candidate stations of one day. *)
PlanarGrid == {to_utmK(lon, lat) : lon \in 0..MaxCoord, lat \in 0..MaxCoord}

CandidateTable(p) ==
    [i \in 1..Len(p) |->
        [jijeom |-> i, ilsi |-> WINDOW_START, sun_hr |-> 1,
         st_x_utmK |-> p[i][1], st_y_utmK |-> p[i][2]]]

InitNearest ==
    /\ pc = "loop"
    /\ missing = "none"
    /\ sun = <<>> /\ meta_raw = <<>>
    /\ window_start = NaT /\ window_end = NaT
    /\ meta = <<>>
    /\ \E k \in 1..MaxCand : \E p \in [1..k -> PlanarGrid] :
          sun_seg = CandidateTable(p)
    /\ days = <<WINDOW_START>>
    /\ g = <<>>
    /\ idx_c = <<>> /\ dist_c = <<>> /\ idx_r = <<>> /\ dist_r = <<>>
    /\ out_rows = <<>> /\ region_day = <<>> /\ intervals = <<>>
    /\ monthly = <<>> /\ written = {}

SpecNearest == InitNearest /\ [][DayLoop]_vars

(* make_intervals on any region-day table the daily loop can build: the
   days that have rows, in date order, each with one row per region in the
   order of the centers.  The rep column of a region mirrors the centroid
   column of the other regions, so both columns range over all sequences. *)
DayChoices == {<<>>} \cup [1..Len(Centers) -> 1..MaxStation]

RegionDayOf(choice) ==
    Flatten([d \in 1..MaxRunDays |->
        IF choice[d] = <<>> THEN <<>>
        ELSE [r \in 1..Len(Centers) |->
                [SIGUNGU_CD |-> Centers[r].SIGUNGU_CD,
                 resid_area |-> Centers[r].resid_area,
                 date |-> d,
                 station_id_centroid |-> choice[d][r],
                 dist_m_centroid |-> choice[d][r] + d,
                 sun_hr_centroid |-> 1,
                 station_id_rep |-> choice[d][Len(Centers) + 1 - r],
                 dist_m_rep |-> choice[d][Len(Centers) + 1 - r] + r,
                 sun_hr_rep |-> 1]]])

InitIntervals ==
    /\ pc = "intervals"
    /\ missing = "none"
    /\ sun = <<>> /\ meta_raw = <<>>
    /\ window_start = NaT /\ window_end = NaT
    /\ meta = <<>> /\ sun_seg = <<>> /\ days = <<>> /\ g = <<>>
    /\ idx_c = <<>> /\ dist_c = <<>> /\ idx_r = <<>> /\ dist_r = <<>>
    /\ out_rows = <<>>
    /\ \E choice \in [1..MaxRunDays -> DayChoices] :
          region_day = RegionDayOf(choice)
    /\ intervals = <<>> /\ monthly = <<>> /\ written = {}

SpecIntervals == InitIntervals /\ [][SaveIntervals]_vars

(***************************************************************************)
(* Properties.                                                             *)
(***************************************************************************)

(* A station with a valid segment and a present measurement on that day. *)
Eligible(day) ==
    {i \in 1..Len(sun_seg) : sun_seg[i].ilsi = day /\ sun_seg[i].sun_hr # NaN}

(* C1 (absent-value exclusion): on every day on which some station with a
   valid segment has a present measurement, every row built by the daily
   loop carries, under both policies, a present measurement: the region is
   assigned to a station that has a value that day, not to a nearer station
   without one. *)
AbsentValueExclusion ==
    \A i \in 1..Len(out_rows) :
        Eligible(out_rows[i].date) # {} =>
            /\ out_rows[i].sun_hr_centroid # NaN
            /\ out_rows[i].sun_hr_rep # NaN

(* The squared distance from the point (x, y) to candidate s of the day. *)
DistTo(x, y, s) == Hypot2(x - g[s].st_x_utmK, y - g[s].st_y_utmK)

NearestOk(rx, ry, idx, dist_m) ==
    \A r \in 1..Len(Centers) :
        /\ idx[r] \in 1..Len(g)
        /\ \A s \in 1..Len(g) :
              DistTo(rx[r], ry[r], idx[r]) <= DistTo(rx[r], ry[r], s)
        /\ dist_m[r] = DistTo(rx[r], ry[r], idx[r])
        /\ \A s \in 1..(idx[r] - 1) :
              DistTo(rx[r], ry[r], s) # DistTo(rx[r], ry[r], idx[r])

(* C2 (nearest correctness): once a day is computed, every region's index
   points to a candidate no other candidate is closer than, the distance is
   the distance to that candidate, and among the candidates at the minimum
   distance the index is the lowest; for both policies. *)
NearestCorrect ==
    g # <<>> =>
        /\ NearestOk(rx_c, ry_c, idx_c, dist_c)
        /\ NearestOk(rx_r, ry_r, idx_r, dist_r)

(* A day of three candidates computed, on which a region has two candidates
   at exactly the minimum distance and a third one farther away. *)
NearestTieReached ==
    /\ Len(g) = MaxCand
    /\ idx_c # <<>>
    /\ \E r \in 1..Len(Centers) : \E s \in 1..Len(g) : \E t \in 1..Len(g) :
          /\ s > idx_c[r]
          /\ DistTo(rx_c[r], ry_c[r], s) = dist_c[r]
          /\ DistTo(rx_c[r], ry_c[r], t) > dist_c[r]

(* The days of segment k of the resolved metadata. *)
SegDays(k) == {d \in 0..MaxDate : meta[k].seg_start <= d /\ d <= meta[k].seg_end}

(* C3 (segment disjointness): in the output of prepare_meta no two segments
   of a station share a day, and every segment has
   W_start <= seg_start, seg_end <= W_end and seg_end >= W_start. *)
SegmentDisjointness ==
    pc = "attach" =>
        /\ \A i \in 1..Len(meta) : \A j \in 1..Len(meta) :
              (i # j /\ meta[i].jijeom = meta[j].jijeom)
                  => SegDays(i) \cap SegDays(j) = {}
        /\ \A i \in 1..Len(meta) :
              /\ window_start <= meta[i].seg_start
              /\ meta[i].seg_end <= window_end
              /\ meta[i].seg_end >= window_start

(* C10 (segment well-formedness): every segment output by prepare_meta has
   seg_start <= seg_end. *)
SegmentsWellFormed ==
    pc = "attach" =>
        \A i \in 1..Len(meta) : meta[i].seg_start <= meta[i].seg_end

(* The days of the window that raw segment k covers once its empty dates
   are filled and it is clipped to the window; none when the row has no
   station id or no location, which prepare_meta drops. *)
RawDays(k) ==
    LET r == meta_raw[k]
        a == IF r.sijak_il = NaT THEN window_start ELSE r.sijak_il
        b == IF r.jongryo_il = NaT THEN window_end ELSE r.jongryo_il
    IN  IF r.jijeom = NaN \/ r.wido = NaN \/ r.gyeongdo = NaN THEN {}
        ELSE {d \in window_start..window_end : a <= d /\ d <= b}

(* The resolved segments of station id that contain day d. *)
ResolvedAt(id, d) ==
    {i \in 1..Len(meta) : meta[i].jijeom = id /\ d \in SegDays(i)}

(* C11 (coverage preservation): every day of the window that lies in a raw
   valid segment of a station lies in exactly one resolved segment of that
   station, so overlap resolution loses no station-day. *)
CoveragePreserved ==
    pc = "attach" =>
        \A k \in 1..Len(meta_raw) : \A d \in RawDays(k) :
            Cardinality(ResolvedAt(meta_raw[k].jijeom, d)) = 1

(* The segments of the observation's station that contain its date. *)
Containing(o) ==
    {k \in 1..Len(meta) :
        /\ meta[k].jijeom = o.jijeom
        /\ meta[k].seg_start <= o.ilsi /\ o.ilsi <= meta[k].seg_end}

(* The output rows of the observation's (station, date). *)
RowsFor(o) ==
    {i \in 1..Len(sun_seg) :
        sun_seg[i].jijeom = o.jijeom /\ sun_seg[i].ilsi = o.ilsi}

(* C7 (segment attachment): every (station, date) observed has at most one
   output row; it has one exactly when a segment of the station contains
   the date; the row carries the interval and the location of a containing
   segment whose seg_start is the latest among the containing ones; and no
   output row belongs to a (station, date) that was not observed. *)
AttachCorrect ==
    pc = "loop" =>
        /\ \A n \in 1..Len(sun) :
              /\ Cardinality(RowsFor(sun[n])) <= 1
              /\ (RowsFor(sun[n]) # {}) <=> (Containing(sun[n]) # {})
              /\ \A i \in RowsFor(sun[n]) : \E k \in Containing(sun[n]) :
                    /\ sun_seg[i].seg_start = meta[k].seg_start
                    /\ sun_seg[i].seg_end = meta[k].seg_end
                    /\ sun_seg[i].wido = meta[k].wido
                    /\ sun_seg[i].gyeongdo = meta[k].gyeongdo
                    /\ \A k2 \in Containing(sun[n]) :
                          meta[k2].seg_start <= meta[k].seg_start
        /\ \A i \in 1..Len(sun_seg) : \E n \in 1..Len(sun) : i \in RowsFor(sun[n])

(* Attached: one observation lies in two segments that start on different
   days, another one lies in no segment and is dropped. *)
AttachOverlapReached ==
    /\ pc = "loop"
    /\ Len(sun) = MaxObs
    /\ Len(sun_seg) = 1
    /\ \E n \in 1..Len(sun) : \E k1 \in Containing(sun[n]) :
          \E k2 \in Containing(sun[n]) : meta[k1].seg_start < meta[k2].seg_start
    /\ \E n \in 1..Len(sun) : Containing(sun[n]) = {}

(* The region-day records of one region, in date order: their dates, and
   the station assigned in column col on each. *)
RegionDates(area) ==
    SortedSeq({region_day[i].date :
                 i \in {j \in 1..Len(region_day) : region_day[j].resid_area = area}})

AssignedSeq(area, col) ==
    LET ds == RegionDates(area)
    IN  [n \in 1..Len(ds) |->
           (CHOOSE row \in {region_day[i] : i \in 1..Len(region_day)} :
               row.resid_area = area /\ row.date = ds[n])[col]]

(* The intervals emitted for one region and policy, in date order. *)
IntervalsOf(area, method) ==
    LET InGroup(r) == r.resid_area = area /\ r.method = method
        t == SelectSeq(intervals, InGroup)
    IN  sort_values(t, [i \in 1..Len(t) |-> <<t[i].start_date>>])

RECURSIVE Expand(_)
Expand(ivs) ==
    IF ivs = <<>> THEN <<>>
    ELSE [i \in 1..Head(ivs).n_days |-> Head(ivs).station_id] \o Expand(Tail(ivs))

RECURSIVE SumDays(_)
SumDays(ivs) == IF ivs = <<>> THEN 0 ELSE Head(ivs).n_days + SumDays(Tail(ivs))

Areas == {Centers[r].resid_area : r \in 1..Len(Centers)}

Policies == {<<"station_id_centroid", "centroid">>, <<"station_id_rep", "rep">>}

(* C4 (interval reconstruction): for every region and policy, expanding the
   intervals in date order, each into n_days copies of its station id,
   gives exactly the date-ordered sequence of the region's assigned station
   ids, and each interval starts and ends on the dates of the first and the
   last record of the run it replaces. *)
IntervalRoundTrip ==
    pc = "monthly" =>
        \A area \in Areas : \A p \in Policies :
            LET ivs == IntervalsOf(area, p[2])
                ds == RegionDates(area)
            IN  /\ Expand(ivs) = AssignedSeq(area, p[1])
                /\ \A k \in 1..Len(ivs) :
                      LET before == SumDays(SubSeq(ivs, 1, k - 1))
                      IN  /\ before + ivs[k].n_days <= Len(ds)
                          /\ ivs[k].start_date = ds[before + 1]
                          /\ ivs[k].end_date = ds[before + ivs[k].n_days]

(* Compressed: a region went to one station, to another and back to the
   first, so that one station id has two intervals. *)
RoundTripReached ==
    /\ pc = "monthly"
    /\ \E area \in Areas :
          LET ivs == IntervalsOf(area, "centroid")
          IN  /\ Len(ivs) >= 3
              /\ ivs[1].station_id = ivs[3].station_id
              /\ Len(RegionDates(area)) > Len(ivs)

(* C9 (maximal runs, record-based day count): for every region and policy,
   two intervals consecutive in date order have different station ids, the
   first interval starts on the region's first record, each n_days is the
   number of the region's records dated within the interval, and the n_days
   sum to the number of the region's records. *)
MaximalRuns ==
    pc = "monthly" =>
        \A area \in Areas : \A p \in Policies :
            LET ivs == IntervalsOf(area, p[2])
                ds == RegionDates(area)
            IN  /\ \A k \in 1..(Len(ivs) - 1) :
                      ivs[k].station_id # ivs[k + 1].station_id
                /\ (ds # <<>>) => (ivs # <<>> /\ ivs[1].start_date = ds[1])
                /\ \A k \in 1..Len(ivs) :
                      ivs[k].n_days =
                          Cardinality({n \in 1..Len(ds) :
                              ivs[k].start_date <= ds[n] /\ ds[n] <= ivs[k].end_date})
                /\ SumDays(ivs) = Len(ds)

(* Compressed: a run spans a day that has no assignment at all, so its
   n_days is less than its calendar span. *)
RunWithGapReached ==
    /\ pc = "monthly"
    /\ \E i \in 1..Len(intervals) :
          /\ intervals[i].n_days >= 2
          /\ intervals[i].n_days < intervals[i].end_date - intervals[i].start_date + 1

(* C5 (empty-day gap): a day on which no station has both a valid segment
   and a present measurement has no row in the region-day table, for any
   region, and is counted in no interval: the n_days of a region's intervals
   sum to no more than the number of days that have an eligible station. *)
EmptyDayGap ==
    pc \in {"monthly", "done"} =>
        /\ \A i \in 1..Len(region_day) : Eligible(region_day[i].date) # {}
        /\ \A area \in Areas : \A p \in Policies :
              SumDays(IntervalsOf(area, p[2])) <=
                  Cardinality({d \in WINDOW_START..WINDOW_END : Eligible(d) # {}})

(* The sum of column col over the rows I of the region-day table. *)
RECURSIVE SumRows(_, _)
SumRows(I, col) ==
    IF I = {} THEN 0
    ELSE LET i == CHOOSE x \in I : TRUE
         IN  region_day[i][col] + SumRows(I \ {i}, col)

MonthValueOk(m, col, value) ==
    LET rows == {i \in 1..Len(region_day) :
                    /\ region_day[i].SIGUNGU_CD = m.SIGUNGU_CD
                    /\ ym(region_day[i].date) = m.ym}
        present == {i \in rows : region_day[i][col] # NaN}
    IN  IF present = {} THEN value # 0 ELSE value = SumRows(present, col)

(* C6 (monthly aggregate): every emitted monthly value is the sum of the
   present measurements of the region's rows of that month and policy, and
   a region-month whose rows all lack a measurement is not reported with
   the sum 0. *)
MonthlyAggregate ==
    pc = "done" =>
        \A n \in 1..Len(monthly) :
            /\ MonthValueOk(monthly[n], "sun_hr_centroid", monthly[n].sun_hr_centroid_sum)
            /\ MonthValueOk(monthly[n], "sun_hr_rep", monthly[n].sun_hr_rep_sum)

(* C8 (fatal errors produce no output): in a run whose input lacks a
   required column nothing is ever written, the daily loop never starts
   (no day is computed, no row is built), and the run gets no further than
   the attachment step: it is there or before it, or it has aborted. *)
SchemaAbort ==
    missing # "none" =>
        /\ written = {}
        /\ out_rows = <<>> /\ g = <<>> /\ idx_c = <<>> /\ idx_r = <<>>
        /\ pc \in {"start", "load_sun", "load_meta", "attach", "aborted"}

(* A run aborted at the last place that reads a required column: the
   segments are resolved, the station label is missing, nothing is written. *)
SchemaAbortReached ==
    /\ pc = "aborted"
    /\ missing \in LabelCols
    /\ meta # <<>>
    /\ written = {}

============================================================================
